---------------------------- MODULE Spec2Model ----------------------------
(***************************************************************************)
(* Model of the MQTT telemetry agent (microcontroller/): the bounded ring  *)
(* buffer (CircularBuffer.cpp) and the pipeline supervisor with its        *)
(* workers (MqttTelemetry.cpp).                                            *)
(*                                                                         *)
(* A message record is abstracted to [id, len]: id stands for the bytes of *)
(* topic and payload, len for payloadLength.                               *)
(***************************************************************************)
EXTENDS Integers, Sequences, FiniteSets, TLC

(***************************************************************************)
(* Bounds of the model.                                                    *)
(***************************************************************************)
\* capacity handed to CircularBuffer's constructor (BUFFER_SIZE, scaled down)
BufCap == 2
\* number of CircularBuffer calls explored in the stand-alone buffer model
MaxOps == 5
\* distinct message contents offered to push in the stand-alone buffer model
NumIds == 2
\* sizeof(BufferedMessage::payload) - 1, scaled down
PayloadMax == 2
\* number of messages the broker client delivers to the callback
MaxMsgs == 3
\* last tick of the clock (two ticks are MQTT_RECONNECT_DELAY_MS)
MaxTime == 2

VARIABLES
    buffer,     \* CircularBuffer: [head, tail, count, maxCapacity, slots]
    enq,        \* history: the records stored by successful push calls
    deq,        \* history: the records copied out by successful pop calls
    last,       \* history: the last buffer call [op, ret, pre, out]
    plain,      \* history: TRUE while only push/pop/peek have been called
    nops,       \* history: number of buffer calls made (stand-alone model)
    status,     \* MqttTelemetry::status
    stats,      \* MqttTelemetry::stats (the counters and the buffer gauge)
    initialized,   \* MqttTelemetry::initialized
    sdMounted,     \* MqttTelemetry::sdMounted
    validator,     \* SchemaValidator [enabled, loaded] (nullptr before begin)
    storage,       \* StorageManager state (nullptr before begin creates it)
    bufferMutex,   \* holder of bufferMutex: a context, or "none"
    statsMutex,    \* holder of statsMutex: a context, or "none"
    wifiUp,        \* WiFi.status() == WL_CONNECTED
    connected,     \* mqttClient->connected()
    now,           \* millis(), in ticks of MQTT_RECONNECT_DELAY_MS
    lastReconnectAttempt,
    pcMain,     \* position of the main context (begin, then loop)
    pcM,        \* position of the broker worker (mqttTask, handleMessage)
    pcS,        \* position of the drain worker (storageTask)
    cur,        \* the message handleMessage is working on
    message,    \* storageTask's local BufferedMessage
    wrote,      \* storageTask: what storage->writeMessage returned
    delivered,  \* history: number of callbacks delivered by the broker client
    written,    \* history: the records handed to StorageManager::writeMessage
    evicted,    \* history: the records removed by removeOldest in handleMessage
    rejected,   \* history: ids of the messages that failed validation
    curEvicted, \* history: the running handleMessage call evicted a record
    skipped,    \* history: per counter, the increments given up because
                \* statsMutex was not obtained within the timeout
    attempts,   \* history: the clock readings at which reconnectMQTT started a
                \* broker connect, oldest first
    connects,   \* history: the number of broker connects that succeeded
    lockLost,   \* history: ids of the messages handleMessage gave up because
                \* bufferMutex was not obtained within the timeout
    connOk      \* history: a connect succeeded since status was last set to
                \* WIFI_CONNECTING, MQTT_CONNECTING or ERROR

bufVars == <<buffer, enq, deq, last, plain, nops>>

supVars == <<status, stats, initialized, sdMounted, validator, storage,
             bufferMutex, statsMutex, wifiUp, connected, now,
             lastReconnectAttempt, attempts, connects, pcMain, pcM, pcS, cur, message, wrote,
             delivered, written, evicted, rejected, curEvicted, skipped,
             lockLost, connOk>>

vars == <<buffer, enq, deq, last, plain, nops, status, stats, initialized,
          sdMounted, validator, storage, bufferMutex, statsMutex, wifiUp,
          connected, now, lastReconnectAttempt, attempts, connects, pcMain, pcM, pcS,
          cur, message, wrote, delivered, written, evicted, rejected, curEvicted,
          skipped, lockLost, connOk>>

(***************************************************************************)
(* CircularBuffer                                                          *)
(***************************************************************************)
\* an object pointer that is nullptr
nullptr == [null |-> TRUE]

\* content of a slot that was never written (new BufferedMessage[capacity])
NoMsg == [id |-> 0, len |-> 0]

Min(a, b) == IF a < b THEN a ELSE b

\* CircularBuffer::CircularBuffer
NewBuffer(capacity) ==
    [head |-> 0, tail |-> 0, count |-> 0, maxCapacity |-> capacity,
     slots |-> [i \in 0..(capacity - 1) |-> NoMsg]]

size(b) == b.count

capacity(b) == b.maxCapacity

isEmpty(b) == b.count = 0

isFull(b) == b.count >= b.maxCapacity

\* the record push leaves in the slot: payload cut to sizeof(payload) - 1
StoredRecord(m) == [id |-> m.id, len |-> Min(m.len, PayloadMax)]

push_evicting(b, m) ==
    [ret |-> TRUE,
     buf |-> [b EXCEPT !.slots[b.head] = StoredRecord(m),
                       !.head = (b.head + 1) % b.maxCapacity,
                       !.tail = IF isFull(b) THEN (b.tail + 1) % b.maxCapacity
                                ELSE b.tail,
                       !.count = IF isFull(b) THEN b.count ELSE b.count + 1]]

push_lifo(b, m) ==
    IF isFull(b) THEN [ret |-> FALSE, buf |-> b]
    ELSE [ret |-> TRUE,
          buf |-> [b EXCEPT
                     !.slots[(b.tail + b.maxCapacity - 1) % b.maxCapacity] =
                          StoredRecord(m),
                     !.tail = (b.tail + b.maxCapacity - 1) % b.maxCapacity,
                     !.count = b.count + 1]]

push(b, m) ==
    IF isFull(b) THEN [ret |-> FALSE, buf |-> b]
    ELSE [ret |-> TRUE,
          buf |-> [b EXCEPT !.slots[b.head] = StoredRecord(m),
                            !.head = (b.head + 1) % b.maxCapacity,
                            !.count = b.count + 1]]

\* pop that never hands a record out
pop_fails(b) == [ret |-> FALSE, out |-> NoMsg, buf |-> b]

pop(b) ==
    IF isEmpty(b) THEN [ret |-> FALSE, out |-> NoMsg, buf |-> b]
    ELSE [ret |-> TRUE, out |-> b.slots[b.tail],
          buf |-> [b EXCEPT !.tail = (b.tail + 1) % b.maxCapacity,
                            !.count = b.count - 1]]

peek(b) ==
    IF isEmpty(b) THEN [ret |-> FALSE, out |-> NoMsg, buf |-> b]
    ELSE [ret |-> TRUE, out |-> b.slots[b.tail], buf |-> b]

clear_countOnly(b) == [b EXCEPT !.count = 0]

clear(b) == [b EXCEPT !.head = 0, !.tail = 0, !.count = 0]

\* removeOldest that gives up the newest record instead of the oldest
removeOldest_newest(b) ==
    IF isEmpty(b) THEN b
    ELSE [b EXCEPT !.head = (b.head + b.maxCapacity - 1) % b.maxCapacity,
                   !.count = b.count - 1]

removeOldest_unguarded(b) ==
    [b EXCEPT !.tail = (b.tail + 1) % b.maxCapacity, !.count = b.count - 1]

removeOldest(b) ==
    IF ~isEmpty(b)
    THEN [b EXCEPT !.tail = (b.tail + 1) % b.maxCapacity,
                   !.count = b.count - 1]
    ELSE b

\* the records a buffer holds, oldest first (slots tail .. tail + count - 1)
Contents(b) ==
    [i \in 1..b.count |-> b.slots[(b.tail + i - 1) % b.maxCapacity]]

(***************************************************************************)
(* SchemaValidator, as far as handleMessage depends on it.  The outcome    *)
(* of the field checks on a payload is carried by the message (kind).      *)
(***************************************************************************)
ValidationResults ==
    {"VALIDATION_OK", "VALIDATION_ERROR_MISSING_FIELD",
     "VALIDATION_ERROR_TYPE_MISMATCH", "VALIDATION_ERROR_OUT_OF_RANGE",
     "VALIDATION_ERROR_PATTERN_MISMATCH", "VALIDATION_ERROR_PARSE_FAILED"}

\* SchemaValidator::SchemaValidator; a string is the sequence of its
\* characters, fields is the array behind the fields pointer (<<>>: nullptr)
NewValidator ==
    [enabled |-> TRUE, loaded |-> FALSE, schemaName |-> <<>>,
     topicPattern |-> <<>>, fields |-> <<>>, fieldCount |-> 0]

isEnabled(v) == v.enabled

validate_always_ok(v, m) == "VALIDATION_OK"

validate(v, m) ==
    IF ~v.enabled \/ ~v.loaded THEN "VALIDATION_OK" ELSE m.kind

(***************************************************************************)
(* StorageManager and the card it writes to.  A file of the card is its    *)
(* byte count, the lines appended to it (each with the clock reading of    *)
(* its write) and the number of them that a flush has made durable.        *)
(***************************************************************************)
\* rotation threshold maxFileSize, in bytes (scaled down)
MaxFileSize == 3
\* bytes of the line snprintf formats for a record
LineLen(m) == m.len + 1
\* sizeof(line)
LineBufSize == PayloadMax + 2
\* STORAGE_FLUSH_INTERVAL_MS, in readings of the clock
STORAGE_FLUSH_INTERVAL == 2

NoFile == -1

EmptyFile == [bytes |-> 0, lines |-> <<>>, synced |-> 0]

\* StorageManager::StorageManager; files is the card behind the sd pointer
NewStorage ==
    [initialized |-> FALSE, hasSd |-> FALSE, open |-> FALSE,
     currentFileName |-> NoFile, currentFileSize |-> 0, lastFlush |-> 0,
     filesCreated |-> 0, writesCompleted |-> 0, writesFailed |-> 0,
     bytesWritten |-> 0, files |-> <<>>]

\* outcomes of the block device calls made during one StorageManager call
IoOutcomes == [openOk : BOOLEAN, writeOk : BOOLEAN]

\* generateFileName: the name is the wall-clock reading, to the second
generateFileName(t) == t

\* the lines of the file currentFile is open on
CurrentLines(st) ==
    IF st.open THEN st.files[st.currentFileName].lines ELSE <<>>

\* currentFile.flush(): everything appended so far is durable
syncCurrent(st) ==
    IF st.open
    THEN [st EXCEPT !.files[st.currentFileName].synced =
                        Len(st.files[st.currentFileName].lines)]
    ELSE st

tooLong_never(len) == FALSE

\* writeMessage line 68: the formatted line does not fit line[]
tooLong(len) == len <= 0 \/ len >= LineBufSize

\* sd->open(name, FILE_WRITE) creates the file or opens it for appending
createNewFile(st, t, io) ==
    IF ~st.hasSd THEN [ret |-> FALSE, st |-> st]
    ELSE LET name == generateFileName(t)
             named == [st EXCEPT !.currentFileName = name]
         IN IF ~io.openOk
            THEN [ret |-> FALSE, st |-> [named EXCEPT !.open = FALSE]]
            ELSE [ret |-> TRUE,
                  st |-> [named EXCEPT
                            !.open = TRUE,
                            !.currentFileSize = 0,
                            !.filesCreated = @ + 1,
                            !.files = IF name \in DOMAIN st.files
                                      THEN st.files
                                      ELSE st.files @@ (name :> EmptyFile)]]

\* StorageManager::begin
storageBegin(st, t, io) ==
    LET r == createNewFile([st EXCEPT !.hasSd = TRUE], t, io) IN
    IF r.ret THEN [ret |-> TRUE, st |-> [r.st EXCEPT !.initialized = TRUE]]
    ELSE r

\* StorageManager::end
storageEnd(st) ==
    [syncCurrent(st) EXCEPT !.open = FALSE, !.initialized = FALSE]

\* StorageManager::flush
flush(st, t) ==
    IF ~st.open THEN [ret |-> FALSE, st |-> st]
    ELSE [ret |-> TRUE, st |-> [syncCurrent(st) EXCEPT !.lastFlush = t]]

\* StorageManager::rotate
rotate(st, t, io) ==
    createNewFile([syncCurrent(st) EXCEPT !.open = FALSE], t, io)

rotationDue_never(st) == FALSE

\* writeMessage line 55
rotationDue(st) == st.currentFileSize >= MaxFileSize

\* StorageManager::writeMessage
writeMessage(st, m, t, io) ==
    IF ~st.initialized \/ ~st.open THEN [ret |-> FALSE, st |-> st]
    ELSE
      LET r == IF rotationDue(st) THEN rotate(st, t, io)
               ELSE [ret |-> TRUE, st |-> st]
          len == LineLen(m)
      IN IF ~r.ret \/ tooLong(len) \/ ~io.writeOk
         THEN [ret |-> FALSE, st |-> [r.st EXCEPT !.writesFailed = @ + 1]]
         ELSE
           LET name == r.st.currentFileName
               w == [r.st EXCEPT
                       !.files[name].lines =
                           Append(@, [id |-> m.id, len |-> m.len, at |-> t]),
                       !.files[name].bytes = @ + len,
                       !.currentFileSize = @ + len,
                       !.bytesWritten = @ + len,
                       !.writesCompleted = @ + 1]
           IN [ret |-> TRUE,
               st |-> IF t - w.lastFlush > STORAGE_FLUSH_INTERVAL
                      THEN flush(w, t).st ELSE w]

(***************************************************************************)
(* MqttTelemetry                                                           *)
(***************************************************************************)
\* MQTT_RECONNECT_DELAY_MS; the clock (now) counts halves of this period
MQTT_RECONNECT_DELAY == 2

\* the validation outcomes of the payloads the broker delivers; handleMessage
\* only tells VALIDATION_OK from the rest, two failures stand for all of them
InKinds ==
    {"VALIDATION_OK", "VALIDATION_ERROR_OUT_OF_RANGE",
     "VALIDATION_ERROR_PARSE_FAILED"}

NoIn == [id |-> 0, len |-> 0, kind |-> "VALIDATION_OK"]

\* memset(&stats, 0, sizeof(TelemetryStats))
ZeroStats ==
    [messagesReceived |-> 0, messagesStored |-> 0, messagesDropped |-> 0,
     validationErrors |-> 0, storageErrors |-> 0, mqttReconnects |-> 0]

increment_wrapping(st, c) == [st EXCEPT ![c] = (@ + 1) % 2]

\* stats.<c>++
increment(st, c) == [st EXCEPT ![c] = @ + 1]

NoSkips ==
    [messagesReceived |-> 0, messagesDropped |-> 0, validationErrors |-> 0,
     drain |-> 0, mqttReconnects |-> 0]

\* MqttTelemetry::MqttTelemetry, the fields other than validator, storage and
\* the clock
SupIdle ==
    /\ status = "INITIALIZING"
    /\ stats = ZeroStats
    /\ initialized = FALSE
    /\ sdMounted = FALSE
    /\ bufferMutex = "null"
    /\ statsMutex = "null"
    /\ wifiUp = FALSE
    /\ connected = FALSE
    /\ lastReconnectAttempt = 0
    /\ pcMain = "start"
    /\ pcM = "off"
    /\ pcS = "off"
    /\ cur = NoIn
    /\ message = NoMsg
    /\ wrote = FALSE
    /\ delivered = 0
    /\ written = <<>>
    /\ evicted = <<>>
    /\ rejected = {}
    /\ curEvicted = FALSE
    /\ skipped = NoSkips
    /\ lockLost = {}
    /\ attempts = <<>>
    /\ connects = 0
    /\ connOk = FALSE

SupRest ==
    /\ SupIdle
    /\ validator = nullptr

SupConstructed ==
    /\ SupRest
    /\ storage = nullptr
    /\ now = 0

Init ==
    /\ buffer = nullptr
    /\ enq = <<>>
    /\ deq = <<>>
    /\ last = [op |-> "none"]
    /\ plain = TRUE
    /\ nops = 0
    /\ SupConstructed

histVars == <<last, plain, nops>>

releaseAfterPop_late(holder) == holder

\* storageTask lines 306, 322, 325: xSemaphoreGive(bufferMutex) once the buffer
\* has been looked at, before storage is called
releaseAfterPop(holder) == "none"

\* xSemaphoreTake(statsMutex, timeout) == pdTRUE
TakeStats(ctx) == statsMutex = "none" /\ statsMutex' = ctx
\* xSemaphoreTake(statsMutex, timeout) runs into its timeout
StatsBusy(ctx) == statsMutex \notin {"none", ctx} /\ UNCHANGED statsMutex
\* xSemaphoreTake(bufferMutex, timeout) == pdTRUE
TakeBuffer(ctx) == bufferMutex = "none" /\ bufferMutex' = ctx
\* xSemaphoreTake(bufferMutex, timeout) runs into its timeout
BufferBusy(ctx) == bufferMutex \notin {"none", ctx} /\ UNCHANGED bufferMutex

----------------------------------------------------------------------------
(* begin(): lines 40-115, run by the main context *)

\* begin, lines 41-77: mutexes, buffer, validator, setupWiFi starts
BeginStart ==
    /\ pcMain = "start" /\ ~initialized
    /\ bufferMutex' = "none"
    /\ statsMutex' = "none"
    /\ buffer' = NewBuffer(BufCap)
    /\ validator' = NewValidator
    /\ status' = "WIFI_CONNECTING"
    /\ connOk' = FALSE
    /\ pcMain' = "wifi"
    /\ UNCHANGED <<enq, deq, histVars, skipped, lockLost, stats, initialized, sdMounted, storage,
                   wifiUp, connected, now, lastReconnectAttempt, attempts, connects, pcM, pcS, cur,
                   message, wrote, delivered, written, evicted, rejected, curEvicted>>

\* setupWiFi, lines 195-205: the status it leaves
setupWiFi(wifiOk) == IF wifiOk THEN "WIFI_CONNECTING" ELSE "ERROR"

\* setupSD, lines 220-236: storage->begin only if storage is not nullptr
setupSD(stor, stat, sdOk, io) ==
    IF sdOk
    THEN [sdMounted |-> TRUE, status |-> stat,
          storage |-> IF stor # nullptr THEN storageBegin(stor, now, io).st
                      ELSE stor]
    ELSE [sdMounted |-> FALSE, status |-> "SD_ERROR", storage |-> stor]

\* begin, lines 77-93: end of setupWiFi, setupSD, schema load
BeginSetup(wifiOk, sdOk, schemaOk, io) ==
    /\ pcMain = "wifi"
    /\ wifiUp' = wifiOk
    /\ LET r == setupSD(storage, setupWiFi(wifiOk), sdOk, io) IN
         /\ sdMounted' = r.sdMounted
         /\ status' = r.status
         /\ storage' = r.storage
         /\ validator' = [validator EXCEPT !.loaded = r.sdMounted /\ schemaOk]
    /\ connOk' = FALSE
    /\ pcMain' = "new"
    /\ UNCHANGED <<buffer, enq, deq, histVars, skipped, lockLost, stats, initialized, bufferMutex,
                   statsMutex, connected, now, lastReconnectAttempt, attempts, connects, pcM, pcS,
                   cur, message, wrote, delivered, written, evicted, rejected,
                   curEvicted>>

\* begin, lines 95-108: new StorageManager, setupMQTT, setupTasks
BeginTasks ==
    /\ pcMain = "new"
    /\ storage' = NewStorage
    /\ pcM' = "top"
    /\ pcS' = "S1"
    /\ pcMain' = "fin"
    /\ UNCHANGED <<buffer, enq, deq, histVars, skipped, lockLost, status, stats, initialized,
                   sdMounted, validator, bufferMutex, statsMutex, wifiUp,
                   connected, now, lastReconnectAttempt, attempts, connects, cur, message, wrote,
                   delivered, written, evicted, rejected, curEvicted, connOk>>

\* begin, lines 110-114
BeginFinish ==
    /\ pcMain = "fin"
    /\ initialized' = TRUE
    /\ status' = "RUNNING"
    /\ pcMain' = "loop"
    /\ UNCHANGED <<buffer, enq, deq, histVars, skipped, lockLost, stats, sdMounted, validator,
                   storage, bufferMutex, statsMutex, wifiUp, connected, now,
                   lastReconnectAttempt, attempts, connects, pcM, pcS, cur, message, wrote, delivered,
                   written, evicted, rejected, curEvicted, connOk>>

----------------------------------------------------------------------------
(* mqttTask, reconnectMQTT: the broker worker *)

rateLimited_never(t, prev) == FALSE

\* refuses every attempt after the first one
rateLimited_afterFirst(t, prev) == t - prev < MQTT_RECONNECT_DELAY \/ prev > 0

\* reconnectMQTT lines 394-397: the previous attempt is too recent
rateLimited(t, prev) == t - prev < MQTT_RECONNECT_DELAY

\* mqttTask lines 287-289 and reconnectMQTT lines 388-400, broker not
\* connected: the link is down, or the attempt is rate-limited, or a
\* connect is started
MqttTop ==
    /\ pcM = "top"
    /\ ~connected
    /\ IF ~wifiUp \/ rateLimited(now, lastReconnectAttempt)
       THEN UNCHANGED <<lastReconnectAttempt, attempts, connects, status, connOk, pcM>>
       ELSE /\ lastReconnectAttempt' = now
            /\ attempts' = Append(attempts, now)
            /\ connects' = connects
            /\ status' = "MQTT_CONNECTING"
            /\ connOk' = FALSE
            /\ pcM' = "conn"
    /\ UNCHANGED <<buffer, enq, deq, histVars, skipped, lockLost, stats, initialized, sdMounted,
                   validator, storage, bufferMutex, statsMutex, wifiUp,
                   connected, now, pcMain, pcS, cur, message, wrote, delivered,
                   written, evicted, rejected, curEvicted>>

statusAfterConnect_running(ok) == "RUNNING"

\* reconnectMQTT lines 413 and 422: the status a connect attempt leaves
statusAfterConnect(ok) == IF ok THEN "RUNNING" ELSE "ERROR"

\* reconnectMQTT lines 404-423: mqttClient->connect returns ok
MqttConnect(ok) ==
    /\ pcM = "conn"
    /\ status' = statusAfterConnect(ok)
    /\ IF ok
       THEN /\ connected' = TRUE
            /\ connOk' = TRUE
            /\ connects' = connects + 1
            /\ pcM' = "R1"
       ELSE /\ connected' = FALSE
            /\ connOk' = FALSE
            /\ connects' = connects
            /\ pcM' = "top"
    /\ UNCHANGED <<buffer, enq, deq, histVars, skipped, lockLost, stats, initialized, sdMounted,
                   validator, storage, bufferMutex, statsMutex, wifiUp, now,
                   lastReconnectAttempt, attempts, pcMain, pcS, cur, message,
                   wrote, delivered, written, evicted, rejected, curEvicted>>

\* the variables a statistics critical section of the broker worker leaves
mqttStatsFrame ==
    <<buffer, enq, deq, histVars, lockLost, status, initialized, sdMounted, validator,
      storage, bufferMutex, wifiUp, connected, now, lastReconnectAttempt, attempts, connects,
      pcMain, pcS, cur, message, wrote, delivered, written, evicted, rejected,
      curEvicted, connOk>>

\* reconnectMQTT line 415
MqttReconnectTake ==
    /\ pcM = "R1"
    /\ \/ TakeStats("mqtt") /\ pcM' = "R2" /\ skipped' = skipped
       \/ /\ StatsBusy("mqtt")
          /\ pcM' = "top"
          /\ skipped' = [skipped EXCEPT !.mqttReconnects = @ + 1]
    /\ UNCHANGED <<stats, mqttStatsFrame>>

\* reconnectMQTT lines 416-417
MqttReconnectCount ==
    /\ pcM = "R2"
    /\ stats' = increment(stats, "mqttReconnects")
    /\ statsMutex' = "none"
    /\ pcM' = "top"
    /\ UNCHANGED <<skipped, mqttStatsFrame>>

\* mqttTask lines 291-292, mqttCallback: connected, and loop() delivers one
\* inbound message (a loop() that delivers none changes nothing)
MqttDeliver(kind) ==
    /\ pcM = "top"
    /\ connected
    /\ delivered < MaxMsgs
    /\ cur' = [id |-> delivered + 1, len |-> 1, kind |-> kind]
    /\ delivered' = delivered + 1
    /\ pcM' = "H1"
    /\ UNCHANGED <<buffer, enq, deq, histVars, skipped, lockLost, status, stats, initialized,
                   sdMounted, validator, storage, bufferMutex, statsMutex,
                   wifiUp, connected, now, lastReconnectAttempt, attempts, connects, pcMain, pcS,
                   message, wrote, written, evicted, rejected, curEvicted, connOk>>

----------------------------------------------------------------------------
(* handleMessage, lines 345-386, run by the broker worker *)

\* lines 357-363: the result of validation, VALIDATION_OK when it is skipped
validationOf(v, m) ==
    IF v # nullptr /\ isEnabled(v) THEN validate(v, m) ELSE "VALIDATION_OK"

\* lines 356-370: where handleMessage goes after counting the message
afterValidate(v, m) ==
    IF validationOf(v, m) # "VALIDATION_OK" THEN "H4" ELSE "H6"

\* line 346, and lines 356-363 when the mutex is not obtained
HandleReceivedTake ==
    /\ pcM = "H1"
    /\ \/ /\ TakeStats("mqtt")
          /\ pcM' = "H2"
          /\ rejected' = rejected
          /\ skipped' = skipped
       \/ /\ StatsBusy("mqtt")
          /\ pcM' = afterValidate(validator, cur)
          /\ rejected' = IF pcM' = "H4" THEN rejected \cup {cur.id}
                         ELSE rejected
          /\ skipped' = [skipped EXCEPT !.messagesReceived = @ + 1]
    /\ UNCHANGED <<buffer, enq, deq, histVars, lockLost, status, stats, initialized,
                   sdMounted, validator, storage, bufferMutex, wifiUp,
                   connected, now, lastReconnectAttempt, attempts, connects, pcMain, pcS, cur,
                   message, wrote, delivered, written, evicted, curEvicted,
                   connOk>>

\* lines 347-348 and 356-363
HandleReceivedCount ==
    /\ pcM = "H2"
    /\ stats' = increment(stats, "messagesReceived")
    /\ statsMutex' = "none"
    /\ pcM' = afterValidate(validator, cur)
    /\ rejected' = IF pcM' = "H4" THEN rejected \cup {cur.id} ELSE rejected
    /\ UNCHANGED <<buffer, enq, deq, histVars, skipped, lockLost, status, initialized, sdMounted,
                   validator, storage, bufferMutex, wifiUp, connected, now,
                   lastReconnectAttempt, attempts, connects, pcMain, pcS, cur, message, wrote,
                   delivered, written, evicted, curEvicted, connOk>>

\* line 364, and the return of line 368 when the mutex is not obtained
HandleInvalidTake ==
    /\ pcM = "H4"
    /\ \/ TakeStats("mqtt") /\ pcM' = "H5" /\ UNCHANGED <<cur, skipped>>
       \/ /\ StatsBusy("mqtt")
          /\ pcM' = "top"
          /\ cur' = NoIn
          /\ skipped' = [skipped EXCEPT !.validationErrors = @ + 1]
    /\ UNCHANGED <<stats, buffer, enq, deq, histVars, lockLost, status, initialized,
                   sdMounted, validator, storage, bufferMutex, wifiUp,
                   connected, now, lastReconnectAttempt, attempts, connects, pcMain, pcS, message, wrote,
                   delivered, written, evicted, rejected, curEvicted, connOk>>

\* lines 365-368
HandleInvalidCount ==
    /\ pcM = "H5"
    /\ stats' = increment(stats, "validationErrors")
    /\ statsMutex' = "none"
    /\ pcM' = "top"
    /\ cur' = NoIn
    /\ UNCHANGED <<buffer, enq, deq, histVars, skipped, lockLost, status, initialized, sdMounted,
                   validator, storage, bufferMutex, wifiUp, connected, now,
                   lastReconnectAttempt, attempts, connects, pcMain, pcS, message, wrote, delivered,
                   written, evicted, rejected, curEvicted, connOk>>

\* line 373, and the fall through to line 386 when the mutex is not obtained
HandleBufferTake ==
    /\ pcM = "H6"
    /\ \/ TakeBuffer("mqtt") /\ pcM' = "H7" /\ UNCHANGED <<cur, lockLost>>
       \/ /\ BufferBusy("mqtt")
          /\ pcM' = "top"
          /\ cur' = NoIn
          /\ lockLost' = lockLost \cup {cur.id}
    /\ UNCHANGED <<buffer, enq, deq, histVars, skipped, status, stats, initialized,
                   sdMounted, validator, storage, statsMutex, wifiUp,
                   connected, now, lastReconnectAttempt, attempts, connects, pcMain, pcS, message, wrote,
                   delivered, written, evicted, rejected, curEvicted, connOk>>

\* lines 374-376
HandleFullCheck ==
    /\ pcM = "H7"
    /\ IF isFull(buffer)
       THEN /\ buffer' = removeOldest(buffer)
            /\ evicted' = Append(evicted, buffer.slots[buffer.tail])
            /\ curEvicted' = TRUE
            /\ pcM' = "H8"
       ELSE /\ UNCHANGED <<buffer, evicted, curEvicted>>
            /\ pcM' = "H10"
    /\ UNCHANGED <<enq, deq, histVars, skipped, lockLost, status, stats, initialized, sdMounted,
                   validator, storage, bufferMutex, statsMutex, wifiUp,
                   connected, now, lastReconnectAttempt, attempts, connects, pcMain, pcS, cur,
                   message, wrote, delivered, written, rejected, connOk>>

\* line 377
HandleDroppedTake ==
    /\ pcM = "H8"
    /\ \/ TakeStats("mqtt") /\ pcM' = "H9" /\ skipped' = skipped
       \/ /\ StatsBusy("mqtt")
          /\ pcM' = "H10"
          /\ skipped' = [skipped EXCEPT !.messagesDropped = @ + 1]
    /\ UNCHANGED <<stats, mqttStatsFrame>>

\* lines 378-379
HandleDroppedCount ==
    /\ pcM = "H9"
    /\ stats' = increment(stats, "messagesDropped")
    /\ statsMutex' = "none"
    /\ pcM' = "H10"
    /\ UNCHANGED <<skipped, mqttStatsFrame>>

\* lines 383-384
HandlePush ==
    /\ pcM = "H10"
    /\ LET r == push(buffer, cur) IN
         /\ buffer' = r.buf
         /\ enq' = IF r.ret THEN Append(enq, StoredRecord(cur)) ELSE enq
    /\ bufferMutex' = "none"
    /\ curEvicted' = FALSE
    /\ cur' = NoIn
    /\ pcM' = "top"
    /\ UNCHANGED <<deq, histVars, skipped, lockLost, status, stats, initialized, sdMounted,
                   validator, storage, statsMutex, wifiUp, connected, now,
                   lastReconnectAttempt, attempts, connects, pcMain, pcS, message, wrote, delivered,
                   written, evicted, rejected, connOk>>

----------------------------------------------------------------------------
(* storageTask, lines 299-332: the drain worker *)

\* line 303 (a timeout leads back here through vTaskDelay)
DrainTake ==
    /\ pcS = "S1"
    /\ TakeBuffer("storage")
    /\ pcS' = "S2"
    /\ UNCHANGED <<buffer, enq, deq, histVars, skipped, lockLost, status, stats, initialized,
                   sdMounted, validator, storage, statsMutex, wifiUp,
                   connected, now, lastReconnectAttempt, attempts, connects, pcMain, pcM, cur,
                   message, wrote, delivered, written, evicted, rejected, curEvicted,
                   connOk>>

\* lines 304-306 and 322-327
DrainPop ==
    /\ pcS = "S2"
    /\ IF ~isEmpty(buffer)
       THEN LET r == pop(buffer) IN
              /\ buffer' = r.buf
              /\ IF r.ret
                 THEN /\ message' = r.out
                      /\ deq' = Append(deq, r.out)
                      /\ pcS' = "S3"
                 ELSE /\ UNCHANGED <<message, deq>>
                      /\ pcS' = "S1"
       ELSE /\ UNCHANGED <<buffer, message, deq>>
            /\ pcS' = "S1"
    /\ bufferMutex' = releaseAfterPop(bufferMutex)
    /\ UNCHANGED <<enq, histVars, skipped, lockLost, status, stats, initialized, sdMounted,
                   validator, storage, statsMutex, wifiUp, connected, now,
                   lastReconnectAttempt, attempts, connects, pcMain, pcM, cur, wrote, delivered,
                   written, evicted, rejected, curEvicted, connOk>>

\* lines 309-310 and 315: storage->writeMessage, if there is a mounted device
DrainWrite(io) ==
    /\ pcS = "S3"
    /\ IF storage # nullptr /\ sdMounted
       THEN LET w == writeMessage(storage, message, now, io) IN
              /\ storage' = w.st
              /\ written' = Append(written, message)
              /\ wrote' = w.ret
              /\ pcS' = "S4"
              /\ message' = message
       ELSE /\ UNCHANGED <<storage, written, wrote>>
            /\ pcS' = "S1"
            /\ message' = NoMsg
    /\ UNCHANGED <<buffer, enq, deq, histVars, skipped, lockLost, status, stats, initialized,
                   sdMounted, validator, bufferMutex, statsMutex, wifiUp,
                   connected, now, lastReconnectAttempt, attempts, connects, pcMain, pcM, cur,
                   delivered, evicted, rejected, curEvicted, connOk>>

\* the variables a statistics critical section of the drain worker leaves
drainStatsFrame ==
    <<buffer, enq, deq, histVars, lockLost, status, initialized, sdMounted, validator,
      storage, bufferMutex, wifiUp, connected, now, lastReconnectAttempt, attempts, connects,
      pcMain, pcM, cur, delivered, written, evicted, rejected, curEvicted,
      connOk>>

\* lines 311 and 316
DrainCountTake ==
    /\ pcS = "S4"
    /\ \/ /\ TakeStats("storage")
          /\ pcS' = "S5"
          /\ UNCHANGED <<message, wrote, skipped>>
       \/ /\ StatsBusy("storage")
          /\ pcS' = "S1"
          /\ message' = NoMsg
          /\ wrote' = FALSE
          /\ skipped' = [skipped EXCEPT !.drain = @ + 1]
    /\ UNCHANGED <<stats, drainStatsFrame>>

\* the counter the drain worker increments after writeMessage returned ret
drainCounter_swapped(ret) ==
    IF ret THEN "storageErrors" ELSE "messagesStored"

drainCounter(ret) == IF ret THEN "messagesStored" ELSE "storageErrors"

\* lines 312-313 and 317-318
DrainCount ==
    /\ pcS = "S5"
    /\ stats' = increment(stats, drainCounter(wrote))
    /\ statsMutex' = "none"
    /\ pcS' = "S1"
    /\ message' = NoMsg
    /\ wrote' = FALSE
    /\ UNCHANGED <<skipped, drainStatsFrame>>

----------------------------------------------------------------------------
(* update(), called from the main loop (main.cpp) *)

mainFrame ==
    <<buffer, enq, deq, histVars, skipped, lockLost, status, initialized, sdMounted, validator,
      storage, bufferMutex, wifiUp, connected, now, lastReconnectAttempt, attempts, connects, pcM,
      pcS, cur, message, wrote, delivered, written, evicted, rejected,
      curEvicted, connOk>>

\* updateStats line 435 (on a timeout update() returns: no change)
UpdateTake ==
    /\ pcMain = "loop"
    /\ TakeStats("main")
    /\ pcMain' = "U2"
    /\ UNCHANGED <<stats, mainFrame>>

\* updateStats lines 436-439: the sampled gauges uptime, freeHeap and
\* bufferUsagePercent (read from the buffer without the buffer mutex) are
\* not kept in the model's stats
UpdateStats ==
    /\ pcMain = "U2"
    /\ statsMutex' = "none"
    /\ pcMain' = "loop"
    /\ UNCHANGED <<stats, mainFrame>>

----------------------------------------------------------------------------
(* the environment: clock, link and broker *)

envFrame ==
    <<buffer, enq, deq, histVars, skipped, lockLost, status, stats, initialized, sdMounted,
      validator, storage, bufferMutex, statsMutex, lastReconnectAttempt, attempts, connects,
      pcMain, pcM, pcS, cur, message, wrote, delivered, written, evicted,
      rejected, curEvicted, connOk>>

\* millis() advances; it is read by reconnectMQTT line 394 only, so the
\* clock is advanced where that read is about to happen
Tick ==
    /\ pcM = "top"
    /\ ~connected /\ wifiUp
    /\ now < MaxTime
    /\ now' = now + 1
    /\ UNCHANGED <<wifiUp, connected, envFrame>>

\* WiFi.status() changes; it is read by reconnectMQTT line 389 only
LinkChange ==
    /\ pcM = "top"
    /\ ~connected
    /\ wifiUp' = ~wifiUp
    /\ UNCHANGED <<now, connected, envFrame>>

\* the connection is lost; connected() is read by mqttTask lines 287, 291
BrokerDrop ==
    /\ pcM = "top"
    /\ connected
    /\ connected' = FALSE
    /\ UNCHANGED <<now, wifiUp, envFrame>>

----------------------------------------------------------------------------
Next ==
    \/ BeginStart
    \/ \E wifiOk \in BOOLEAN, sdOk \in BOOLEAN, schemaOk \in BOOLEAN,
          io \in IoOutcomes : BeginSetup(wifiOk, sdOk, schemaOk, io)
    \/ BeginTasks
    \/ BeginFinish
    \/ MqttTop
    \/ \E ok \in BOOLEAN : MqttConnect(ok)
    \/ MqttReconnectTake
    \/ MqttReconnectCount
    \/ \E kind \in InKinds : MqttDeliver(kind)
    \/ HandleReceivedTake
    \/ HandleReceivedCount
    \/ HandleInvalidTake
    \/ HandleInvalidCount
    \/ HandleBufferTake
    \/ HandleFullCheck
    \/ HandleDroppedTake
    \/ HandleDroppedCount
    \/ HandlePush
    \/ DrainTake
    \/ DrainPop
    \/ \E io \in IoOutcomes : DrainWrite(io)
    \/ DrainCountTake
    \/ DrainCount
    \/ UpdateTake
    \/ UpdateStats
    \/ Tick
    \/ LinkChange
    \/ BrokerDrop

Spec == Init /\ [][Next]_vars

(***************************************************************************)
(* Stand-alone buffer model: any sequence of calls on one CircularBuffer.  *)
(***************************************************************************)
InMsgs == [id : 1..NumIds, len : {1, PayloadMax + 1}]

NoCall == [op |-> "none", ret |-> FALSE, pre |-> NewBuffer(BufCap), out |-> NoMsg]

InitBuffer ==
    /\ buffer = NewBuffer(BufCap)
    /\ enq = <<>>
    /\ deq = <<>>
    /\ last = NoCall
    /\ plain = TRUE
    /\ nops = 0
    /\ SupConstructed

BPush(m) ==
    /\ nops < MaxOps
    /\ LET r == push(buffer, m) IN
         /\ buffer' = r.buf
         /\ enq' = IF r.ret THEN Append(enq, StoredRecord(m)) ELSE enq
         /\ last' = [op |-> "push", ret |-> r.ret, pre |-> buffer, out |-> NoMsg]
    /\ nops' = nops + 1
    /\ UNCHANGED <<deq, plain>>

BPop ==
    /\ nops < MaxOps
    /\ LET r == pop(buffer) IN
         /\ buffer' = r.buf
         /\ deq' = IF r.ret THEN Append(deq, r.out) ELSE deq
         /\ last' = [op |-> "pop", ret |-> r.ret, pre |-> buffer, out |-> r.out]
    /\ nops' = nops + 1
    /\ UNCHANGED <<enq, plain>>

BPeek ==
    /\ nops < MaxOps
    /\ LET r == peek(buffer) IN
         /\ buffer' = r.buf
         /\ last' = [op |-> "peek", ret |-> r.ret, pre |-> buffer, out |-> r.out]
    /\ nops' = nops + 1
    /\ UNCHANGED <<enq, deq, plain>>

BClear ==
    /\ nops < MaxOps
    /\ buffer' = clear(buffer)
    /\ last' = [op |-> "clear", ret |-> TRUE, pre |-> buffer, out |-> NoMsg]
    /\ plain' = FALSE
    /\ nops' = nops + 1
    /\ UNCHANGED <<enq, deq>>

BRemoveOldest ==
    /\ nops < MaxOps
    /\ buffer' = removeOldest(buffer)
    /\ last' = [op |-> "removeOldest", ret |-> TRUE, pre |-> buffer, out |-> NoMsg]
    /\ plain' = FALSE
    /\ nops' = nops + 1
    /\ UNCHANGED <<enq, deq>>

NextBuffer ==
    \/ \E m \in InMsgs : BPush(m)
    \/ BPop
    \/ BPeek
    \/ BClear
    \/ BRemoveOldest

SpecBuffer == InitBuffer /\ [][NextBuffer /\ UNCHANGED supVars]_vars

(***************************************************************************)
(* Properties of the stand-alone buffer model                              *)
(***************************************************************************)
\* C1: while only push, pop and peek are called (push on a full buffer is
\* rejected and so never overflows), the records returned by successful pops
\* followed by the records still held are exactly the records pushed, in
\* push order; in particular the popped sequence is a prefix of the pushed
\* one.
C1_FifoNoDrops ==
    plain => /\ enq = deq \o Contents(buffer)
             /\ Len(deq) <= Len(enq)
             /\ deq = SubSeq(enq, 1, Len(deq))

\* two different records were popped, the second one from the last slot
C1_Witness ==
    /\ plain
    /\ Len(deq) >= 2
    /\ deq[1] # deq[2]
    /\ last.op = "pop" /\ last.ret
    /\ last.pre.tail = BufCap - 1

\* C3: 0 <= count <= capacity, isEmpty exactly when count = 0 and isFull
\* exactly when count = capacity, after any sequence of push, pop, peek,
\* clear and removeOldest.
C3_CountBounds ==
    /\ 0 <= size(buffer)
    /\ size(buffer) <= capacity(buffer)
    /\ isEmpty(buffer) <=> (size(buffer) = 0)
    /\ isFull(buffer) <=> (size(buffer) = capacity(buffer))
    /\ capacity(buffer) >= 1

\* removeOldest was called on an empty buffer that had been used before
C3_Witness ==
    /\ last.op = "removeOldest"
    /\ isEmpty(last.pre)
    /\ last.pre.tail # 0
    /\ isEmpty(buffer)

\* C4: push on a full buffer returns false and leaves head, tail, count and
\* every stored record as they were.
C4_PushFullRejected ==
    (last.op = "push" /\ isFull(last.pre)) =>
        /\ last.ret = FALSE
        /\ buffer = last.pre
        /\ Contents(buffer) = Contents(last.pre)

\* push was called on a full buffer
C4_Witness ==
    /\ last.op = "push"
    /\ isFull(last.pre)
    /\ last.pre.count = BufCap
    /\ buffer.count = BufCap

(***************************************************************************)
(* Properties of the supervisor model                                      *)
(***************************************************************************)
Max(a, b) == IF a > b THEN a ELSE b

Range(s) == {s[i] : i \in DOMAIN s}

Suffix(s, n) == SubSeq(s, Len(s) - n + 1, Len(s))

IdsOf(s) == [i \in DOMAIN s |-> s[i].id]

\* s lists some of the elements of t, each once, in the order they have in t
IsSubsequence(s, t) ==
    /\ \A i \in DOMAIN s : s[i] \in Range(t)
    /\ \A i, j \in DOMAIN s :
         i < j => (CHOOSE k \in DOMAIN t : t[k] = s[i]) <
                  (CHOOSE k \in DOMAIN t : t[k] = s[j])

\* the validator is enabled with a loaded schema and finds m not Ok
Invalid(m) ==
    /\ m # NoIn
    /\ validator # nullptr
    /\ validator.enabled
    /\ validator.loaded
    /\ m.kind # "VALIDATION_OK"

\* C2 as stated: once K > C messages, none rejected, have gone through
\* handleMessage and nothing was popped, the buffer holds the last C of
\* them in arrival order and messagesDropped = K - C.
C2_LastCKept ==
    (pcM = "top" /\ deq = <<>> /\ rejected = {} /\ delivered > BufCap) =>
        /\ IdsOf(Contents(buffer)) =
               [i \in 1..BufCap |-> delivered - BufCap + i]
        /\ stats.messagesDropped = delivered - BufCap

\* C2: with handleMessage not running and nothing popped so far, the
\* messages enqueued are the delivered ones that were neither rejected nor
\* given up on a bufferMutex timeout, in arrival order; the buffer holds
\* the last min(C, E) of these E messages in that order, the others were
\* evicted oldest first, and every eviction is either counted in
\* messagesDropped or was skipped on a statsMutex timeout.  Without a
\* timeout this is the last C of K messages and messagesDropped = K - C.
C2_LastCOfEnqueuedKept ==
    (pcM = "top" /\ deq = <<>>) =>
        /\ Range(IdsOf(enq)) = (1..delivered) \ (rejected \cup lockLost)
        /\ \A i, j \in DOMAIN enq : i < j => enq[i].id < enq[j].id
        /\ Contents(buffer) = Suffix(enq, Min(BufCap, Len(enq)))
        /\ evicted = SubSeq(enq, 1, Len(enq) - Min(BufCap, Len(enq)))
        /\ Len(evicted) = Max(0, Len(enq) - BufCap)
        /\ stats.messagesDropped + skipped.messagesDropped = Len(evicted)
        /\ (lockLost = {} /\ rejected = {} /\ skipped.messagesDropped = 0
            /\ delivered > BufCap) =>
               /\ IdsOf(Contents(buffer)) =
                      [i \in 1..BufCap |-> delivered - BufCap + i]
               /\ stats.messagesDropped = delivered - BufCap

\* more messages than the buffer holds went in with nothing popped, and the
\* eviction was counted
C2_Witness ==
    /\ pcM = "top"
    /\ deq = <<>>
    /\ rejected = {}
    /\ lockLost = {}
    /\ delivered > BufCap
    /\ isFull(buffer)
    /\ Len(evicted) = delivered - BufCap
    /\ stats.messagesDropped = Len(evicted)

\* C5 as stated: the messages handed to writeMessage are a subsequence of
\* the messages accepted into the buffer (same relative order, none twice),
\* and, whenever the drain worker holds no popped message, an accepted
\* message that was not handed over was evicted or is still buffered.
C5_DrainSubsequence ==
    /\ IsSubsequence(written, enq)
    /\ pcS \in {"S1", "S2"} =>
           \A i \in DOMAIN enq :
               \/ enq[i] \in Range(written)
               \/ enq[i] \in Range(evicted)
               \/ enq[i] \in Range(Contents(buffer))

\* C6 as stated: begin() completed with the storage device present, MaxMsgs
\* valid messages were received and drained, no mutex acquisition timed out
\* and no write to the device failed; then each message is a line of the
\* current file and the counters read received = stored = MaxMsgs,
\* dropped = 0.
C6_HappyPath ==
    (/\ initialized /\ sdMounted
     /\ pcM = "top" /\ pcS = "S1"
     /\ delivered = MaxMsgs
     /\ rejected = {} /\ lockLost = {} /\ skipped = NoSkips
     /\ evicted = <<>>
     /\ Len(deq) = MaxMsgs
     /\ storage.writesFailed = 0) =>
        /\ stats.messagesReceived = MaxMsgs
        /\ stats.messagesStored = MaxMsgs
        /\ stats.messagesDropped = 0
        /\ Len(CurrentLines(storage)) = MaxMsgs

\* C7 as stated: every message rejected by the validator has incremented
\* validationErrors by exactly one once handleMessage has returned.
C7_CountedExactlyOnce ==
    pcM \notin {"H4", "H5"} => stats.validationErrors = Cardinality(rejected)

\* C7: a message the enabled validator with a loaded schema finds not Ok is
\* never enqueued; the steps handleMessage takes for it leave the buffer and
\* the status as they are, and validationErrors goes up by exactly one,
\* unless statsMutex is not obtained within the timeout, in which case the
\* counter stays as it is.
C7_InvalidNotEnqueued ==
    /\ [](/\ Invalid(cur) => pcM \in {"H1", "H2", "H4", "H5"}
          /\ pcM \in {"H4", "H5"} => cur.id \in rejected
          /\ \A i \in rejected : i \notin Range(IdsOf(enq))
          /\ stats.validationErrors + skipped.validationErrors
                 + (IF pcM \in {"H4", "H5"} THEN 1 ELSE 0)
             = Cardinality(rejected))
    /\ [][(Invalid(cur) /\ pcM' # pcM) =>
             /\ buffer' = buffer
             /\ enq' = enq
             /\ status' = status
             /\ stats'.validationErrors \in
                    {stats.validationErrors, stats.validationErrors + 1}
             /\ (pcM = "H5") <=>
                    (stats'.validationErrors = stats.validationErrors + 1)]_vars

\* a message was rejected and counted while another one is in the buffer
C7_Witness ==
    /\ pcM = "top"
    /\ validator.loaded
    /\ Cardinality(rejected) = 1
    /\ stats.validationErrors = 1
    /\ skipped.validationErrors = 0
    /\ Len(Contents(buffer)) = 1
    /\ status = "RUNNING"

\* C8 as stated, leaving aside the increments skipped on a statsMutex
\* timeout: whenever the drain worker holds no popped message, every popped
\* message has incremented exactly one of messagesStored and storageErrors.
C8_PoppedCountedOnce ==
    pcS \in {"S1", "S2"} =>
        stats.messagesStored + stats.storageErrors + skipped.drain = Len(deq)

\* C9 as stated: whenever the status is RUNNING, a broker connect has
\* succeeded since the status last was WIFI_CONNECTING, MQTT_CONNECTING or
\* ERROR.
C9_RunningOnlyAfterConnect == status = "RUNNING" => connOk

\* C10 as stated: a handleMessage call that evicted the oldest record
\* returns with the status BUFFER_FULL, and one that enqueued without
\* evicting returns with the status RUNNING.
C10_BufferFullOnEvict ==
    [][(pcM = "H10" /\ pcM' = "top") =>
          IF curEvicted THEN status' = "BUFFER_FULL"
          ELSE (enq' # enq => status' = "RUNNING")]_vars

\* C11 as stated: when begin() completes without a mounted storage device,
\* the status it leaves is SD_ERROR.
C11_StorageErrorAfterBegin ==
    [][(pcMain = "fin" /\ pcMain' = "loop" /\ ~sdMounted) =>
          status' = "SD_ERROR"]_vars

(***************************************************************************)
(* The connection loop alone: begin, the broker worker without message     *)
(* traffic, update, and a clock that runs long enough for several connect  *)
(* attempts.                                                               *)
(***************************************************************************)
\* the last reading of the clock in this model
MaxClock == 5

TickReconnect ==
    /\ pcM = "top"
    /\ ~connected /\ wifiUp
    /\ now < MaxClock
    /\ now' = now + 1
    /\ UNCHANGED <<wifiUp, connected, envFrame>>

NextReconnect ==
    \/ BeginStart
    \/ \E wifiOk \in BOOLEAN, sdOk \in BOOLEAN, schemaOk \in BOOLEAN,
          io \in IoOutcomes : BeginSetup(wifiOk, sdOk, schemaOk, io)
    \/ BeginTasks
    \/ BeginFinish
    \/ MqttTop
    \/ \E ok \in BOOLEAN : MqttConnect(ok)
    \/ MqttReconnectTake
    \/ MqttReconnectCount
    \/ UpdateTake
    \/ UpdateStats
    \/ TickReconnect
    \/ LinkChange
    \/ BrokerDrop

SpecReconnect == Init /\ [][NextReconnect]_vars

\* C12: two consecutive broker connect attempts are at least
\* MQTT_RECONNECT_DELAY apart; an attempt is started only with the link up,
\* at the current clock reading, which it stores in lastReconnectAttempt;
\* and while the link is down the broker worker starts no attempt and
\* changes neither the status nor lastReconnectAttempt.
C12_RateLimitedLinkGated ==
    /\ [](\A i \in 1..(Len(attempts) - 1) :
             attempts[i + 1] - attempts[i] >= MQTT_RECONNECT_DELAY)
    /\ [][attempts' # attempts =>
             /\ wifiUp
             /\ attempts' = Append(attempts, now)
             /\ lastReconnectAttempt' = now
             /\ pcM' = "conn"]_vars
    /\ [][(pcM = "top" /\ ~connected /\ ~wifiUp /\ pcMain' = pcMain) =>
             /\ pcM' = "top"
             /\ status' = status
             /\ lastReconnectAttempt' = lastReconnectAttempt
             /\ attempts' = attempts]_vars

\* a second attempt was made, after the link had been down in between and
\* more than the delay after the first
C12_Witness ==
    /\ Len(attempts) = 2
    /\ attempts[2] - attempts[1] > MQTT_RECONNECT_DELAY
    /\ pcM = "top"
    /\ ~wifiUp
    /\ status = "ERROR"

\* C13 as stated: once the counting that follows a successful connect is
\* over, mqttReconnects equals the number of successful connect attempts.
C13_ReconnectsCounted ==
    pcM \notin {"R1", "R2"} => stats.mqttReconnects = connects

\* C13: a connect attempt ends either connected with the status RUNNING or
\* not connected with the status ERROR and the counters untouched; only the
\* broker worker changes mqttReconnects, by one, after a successful connect;
\* and every successful connect is either counted in mqttReconnects or its
\* increment was skipped because statsMutex was not obtained in time.
C13_ConnectOutcomes ==
    /\ [](stats.mqttReconnects + skipped.mqttReconnects
              + (IF pcM \in {"R1", "R2"} THEN 1 ELSE 0) = connects)
    /\ [][(pcM = "conn" /\ pcM' # "conn") =>
             \/ /\ connected'
                /\ status' = "RUNNING"
                /\ connects' = connects + 1
                /\ pcM' = "R1"
                /\ stats' = stats
             \/ /\ ~connected'
                /\ status' = "ERROR"
                /\ connects' = connects
                /\ pcM' = "top"
                /\ stats' = stats]_vars
    /\ [][stats'.mqttReconnects # stats.mqttReconnects =>
             /\ pcM = "R2"
             /\ stats'.mqttReconnects = stats.mqttReconnects + 1]_vars

\* one attempt failed and a later one succeeded and was counted
C13_Witness ==
    /\ Len(attempts) = 2
    /\ connects = 1
    /\ stats.mqttReconnects = 1
    /\ pcM = "top"
    /\ connected
    /\ status = "RUNNING"

(***************************************************************************)
(* Recovery: the whole supervisor, with an environment that misbehaves     *)
(* (connection lost, link lost, connect refused) only while the clock is   *)
(* at most MaxClock - MQTT_RECONNECT_DELAY, and with fair scheduling.      *)
(***************************************************************************)
\* the link and the broker are still allowed to fail
Unstable == now + MQTT_RECONNECT_DELAY <= MaxClock

\* the link comes back
LinkUp ==
    /\ pcM = "top"
    /\ ~connected
    /\ ~wifiUp
    /\ wifiUp' = TRUE
    /\ UNCHANGED <<now, connected, envFrame>>

\* the link is lost, some time after the previous event
LinkDown ==
    /\ pcM = "top"
    /\ ~connected
    /\ wifiUp
    /\ now + 1 + MQTT_RECONNECT_DELAY <= MaxClock
    /\ wifiUp' = FALSE
    /\ now' = now + 1
    /\ UNCHANGED <<connected, envFrame>>

\* the connection is lost, some time after the previous event
DropRecovery ==
    /\ pcM = "top"
    /\ connected
    /\ now + 1 + MQTT_RECONNECT_DELAY <= MaxClock
    /\ connected' = FALSE
    /\ now' = now + 1
    /\ UNCHANGED <<wifiUp, envFrame>>

\* mqttClient->connect, refused only while the broker may still fail
ConnectRecovery(ok) ==
    /\ ok \/ Unstable
    /\ MqttConnect(ok)

\* the number of messages delivered after the reconnect
MaxFlow == 3

\* mqttClient->loop() delivers a message after the connection was lost and
\* made again
DeliverRecovery(kind) ==
    /\ connects >= 2
    /\ delivered < MaxFlow
    /\ MqttDeliver(kind)

BrokerWorker ==
    \/ MqttTop
    \/ \E ok \in BOOLEAN : ConnectRecovery(ok)
    \/ MqttReconnectTake
    \/ MqttReconnectCount
    \/ HandleReceivedTake
    \/ HandleReceivedCount
    \/ HandleInvalidTake
    \/ HandleInvalidCount
    \/ HandleBufferTake
    \/ HandleFullCheck
    \/ HandleDroppedTake
    \/ HandleDroppedCount
    \/ HandlePush

DrainWorker ==
    \/ DrainTake
    \/ DrainPop
    \/ \E io \in IoOutcomes : DrainWrite(io)
    \/ DrainCountTake
    \/ DrainCount

MainContext ==
    \/ BeginStart
    \/ \E wifiOk \in BOOLEAN, sdOk \in BOOLEAN, schemaOk \in BOOLEAN,
          io \in IoOutcomes : BeginSetup(wifiOk, sdOk, schemaOk, io)
    \/ BeginTasks
    \/ BeginFinish
    \/ UpdateTake
    \/ UpdateStats

NextRecovery ==
    \/ BrokerWorker
    \/ DrainWorker
    \/ MainContext
    \/ \E kind \in InKinds : DeliverRecovery(kind)
    \/ TickReconnect
    \/ LinkUp
    \/ LinkDown
    \/ DropRecovery

\* every context that can take a step eventually takes one, time passes
\* and a lost link comes back
SpecRecovery ==
    /\ Init
    /\ [][NextRecovery]_vars
    /\ WF_vars(BrokerWorker)
    /\ WF_vars(DrainWorker)
    /\ WF_vars(MainContext)
    /\ WF_vars(TickReconnect)
    /\ WF_vars(LinkUp)

\* the ids of the messages that have left the buffer through pop or eviction
Gone == Range(IdsOf(deq)) \cup Range(IdsOf(evicted))

\* C14 as stated: after the connection was lost the broker worker
\* eventually reconnects, with the status RUNNING and mqttReconnects >= 1,
\* and a message delivered after the reconnect that the validator does not
\* reject is eventually popped by the drain worker.
C14_Recovery ==
    /\ (connects >= 1 /\ ~connected) ~>
           (connected /\ status = "RUNNING" /\ stats.mqttReconnects >= 1)
    /\ \A i \in 1..MaxFlow :
           (connects >= 2 /\ pcM = "H1" /\ cur.id = i /\ ~Invalid(cur)) ~>
               (i \in Range(IdsOf(deq)))

\* C14: after the connection was lost the broker worker eventually
\* reconnects and the status is RUNNING again; every successful connect is
\* counted in mqttReconnects unless its increment was skipped on a
\* statsMutex timeout; and a message delivered after the reconnect is
\* eventually rejected by the validator, given up on a bufferMutex timeout,
\* or enqueued and then popped by the drain worker or evicted, a valid one
\* never being rejected.
C14_RecoveryModuloTimeouts ==
    /\ (connects >= 1 /\ ~connected) ~> (connected /\ status = "RUNNING")
    /\ [](/\ pcM \notin {"R1", "R2"} =>
               stats.mqttReconnects + skipped.mqttReconnects = connects
          /\ pcM \in {"H4", "H5"} => Invalid(cur)
          /\ \A i \in rejected : i \notin lockLost \cup Range(IdsOf(enq)))
    /\ \A i \in 1..MaxFlow :
           (connects >= 2 /\ pcM = "H1" /\ cur.id = i) ~>
               (i \in rejected \/ i \in lockLost \/ i \in Gone)

\* after a lost connection and a counted reconnect, a message is being
\* enqueued
C14_Witness ==
    /\ connects >= 2
    /\ connected
    /\ status = "RUNNING"
    /\ stats.mqttReconnects >= 1
    /\ pcM = "H10"
    /\ cur # NoIn


(***************************************************************************)
(* Stand-alone model of StorageManager: any sequence of its calls, each at *)
(* the clock reading it is made at.  The write is made the way the drain   *)
(* worker makes it, counting the outcome in stats.                         *)
(***************************************************************************)
InitStorage ==
    /\ buffer = nullptr
    /\ enq = <<>>
    /\ deq = <<>>
    /\ last = NoCall
    /\ plain = TRUE
    /\ nops = 0
    /\ SupRest
    /\ storage = NewStorage
    /\ now = 0

storageFrame ==
    <<buffer, enq, deq, plain, status, initialized, sdMounted, validator,
      bufferMutex, statsMutex, wifiUp, connected, lastReconnectAttempt,
      attempts, connects, pcMain, pcM, pcS, cur, message, wrote, delivered,
      written, evicted, rejected, curEvicted, skipped, lockLost, connOk>>

\* the records the drain worker can hand to writeMessage as call number n
StorageRecs(n) == {[id |-> n, len |-> l] : l \in 1..(PayloadMax + 1)}

\* calls made to the StorageManager in one run
MaxCalls == 4

StorageCall(op, arg, ret, st) ==
    /\ nops < MaxCalls
    /\ nops' = nops + 1
    /\ last' = [op |-> op, arg |-> arg, ret |-> ret, pre |-> storage,
                t |-> now]
    /\ storage' = st
    /\ UNCHANGED <<now, storageFrame>>

SBegin(io) ==
    /\ ~storage.initialized
    /\ LET r == storageBegin(storage, now, io) IN
         StorageCall("begin", NoMsg, r.ret, r.st)
    /\ UNCHANGED stats

\* storageTask lines 309-319 on a begun StorageManager
SWriteMessage(m, io) ==
    /\ storage.initialized
    /\ LET w == writeMessage(storage, m, now, io) IN
         /\ StorageCall("writeMessage", m, w.ret, w.st)
         /\ stats' = increment(stats, drainCounter(w.ret))

SFlush ==
    /\ storage.initialized
    /\ LET r == flush(storage, now) IN StorageCall("flush", NoMsg, r.ret, r.st)
    /\ UNCHANGED stats

SRotate(io) ==
    /\ storage.initialized
    /\ LET r == rotate(storage, now, io) IN
         StorageCall("rotate", NoMsg, r.ret, r.st)
    /\ UNCHANGED stats

SEnd ==
    /\ storage.initialized
    /\ StorageCall("end", NoMsg, TRUE, storageEnd(storage))
    /\ UNCHANGED stats

\* a second passes
STick ==
    /\ now < MaxClock
    /\ now' = now + 1
    /\ UNCHANGED <<storage, stats, last, nops, storageFrame>>

NextStorage ==
    \/ \E io \in IoOutcomes : SBegin(io)
    \/ \E m \in StorageRecs(nops + 1), io \in IoOutcomes : SWriteMessage(m, io)
    \/ SFlush
    \/ \E io \in IoOutcomes : SRotate(io)
    \/ SEnd
    \/ STick

SpecStorage == InitStorage /\ [][NextStorage]_vars

\* the names of the files on the card
AllFiles(st) == DOMAIN st.files

\* C15: no file of the card ever holds more than max_file_size bytes plus
\* the bytes of one message line.
C15_FileSizeBounded ==
    \A f \in AllFiles(storage) :
        storage.files[f].bytes <= MaxFileSize + (LineBufSize - 1)


\* no file creation has reopened the name of an earlier one
NoNameReused(st) == st.filesCreated = Cardinality(AllFiles(st))

\* the size bound holds in every state that no name reuse has led to
SizeBoundedWhileNamesDiffer ==
    NoNameReused(storage) => C15_FileSizeBounded


\* the last call created a file (createNewFile returned true)
Created == last.op # "none" /\ storage.filesCreated = last.pre.filesCreated + 1

\* C16: a file creation never targets the name of a file created before, so
\* no earlier file is reopened and appended to.
C16_NamesDistinct ==
    Created => storage.currentFileName \notin AllFiles(last.pre)


\* the last call was a writeMessage whose formatted line does not fit line[]
OverlongWrite ==
    last.op = "writeMessage" /\ LineLen(last.arg) >= LineBufSize

\* no line was appended to any file by the last call: the files that existed
\* hold the same lines and bytes, and a file created by the call is empty
NothingAppended ==
    \A f \in AllFiles(storage) :
        LET was == IF f \in AllFiles(last.pre) THEN last.pre.files[f]
                   ELSE EmptyFile
        IN /\ storage.files[f].lines = was.lines
           /\ storage.files[f].bytes = was.bytes

\* a rotation was due when the last call was made
RotationDue == last.pre.currentFileSize >= MaxFileSize

\* C17 as stated: a writeMessage whose line does not fit fails and leaves the
\* file content, currentFileSize, bytesWritten and writesCompleted unchanged.
C17_OverlongChangesNothing ==
    OverlongWrite =>
        /\ ~last.ret
        /\ NothingAppended
        /\ storage.currentFileSize = last.pre.currentFileSize
        /\ storage.bytesWritten = last.pre.bytesWritten
        /\ storage.writesCompleted = last.pre.writesCompleted

\* C17: a writeMessage whose line does not fit fails and appends nothing:
\* file contents, bytesWritten and writesCompleted are unchanged, and on an
\* open file writesFailed grows by one.  currentFileSize is unchanged unless
\* a rotation was due, which is carried out before the length is checked.
C17_OverlongAppendsNothing ==
    OverlongWrite =>
        /\ ~last.ret
        /\ NothingAppended
        /\ storage.bytesWritten = last.pre.bytesWritten
        /\ storage.writesCompleted = last.pre.writesCompleted
        /\ (last.pre.initialized /\ last.pre.open) =>
               storage.writesFailed = last.pre.writesFailed + 1
        /\ ~(last.pre.initialized /\ last.pre.open) => storage = last.pre
        /\ ~RotationDue =>
               /\ storage.currentFileSize = last.pre.currentFileSize
               /\ storage.currentFileName = last.pre.currentFileName
               /\ storage.filesCreated = last.pre.filesCreated
        /\ (RotationDue /\ storage.open) =>
               /\ storage.currentFileSize = 0
               /\ storage.filesCreated = last.pre.filesCreated + 1

C17_Witness ==
    /\ OverlongWrite
    /\ last.pre.initialized /\ last.pre.open
    /\ Len(CurrentLines(last.pre)) > 0
    /\ ~RotationDue
    /\ storage.writesFailed = last.pre.writesFailed + 1

C17_RotatedWitness ==
    /\ OverlongWrite
    /\ last.pre.initialized /\ last.pre.open
    /\ RotationDue
    /\ storage.open


\* the lines of file f that no flush has made durable yet
Unflushed(st, f) ==
    {st.files[f].lines[i] : i \in (st.files[f].synced + 1)..Len(st.files[f].lines)}

\* C18: every successfully written line is flushed within the flush
\* interval of its write, whether or not a further message is written.
C18_FlushedWithinInterval ==
    \A f \in AllFiles(storage) : \A l \in Unflushed(storage, f) :
        now - l.at <= STORAGE_FLUSH_INTERVAL


RECURSIVE SyncedIn(_, _)
\* the number of lines of the files in fs that a flush has made durable
SyncedIn(st, fs) ==
    IF fs = {} THEN 0
    ELSE LET f == CHOOSE x \in fs : TRUE
         IN st.files[f].synced + SyncedIn(st, fs \ {f})

FlushedLines(st) == SyncedIn(st, AllFiles(st))

endFrame ==
    <<enq, deq, histVars, skipped, lockLost, status, stats, sdMounted, now,
      lastReconnectAttempt, attempts, connects, cur, message, wrote,
      delivered, written, evicted, rejected, curEvicted, connOk>>

\* lines 118-126: vTaskDelete(mqttTaskHandle)
EndMqttTask ==
    /\ pcMain = "loop" /\ initialized
    /\ pcM' = "off"
    /\ pcMain' = "E1"
    /\ UNCHANGED <<buffer, validator, storage, bufferMutex, statsMutex,
                   initialized, wifiUp, connected, pcS, endFrame>>

\* lines 127-134: vTaskDelete(storageTaskHandle), vTaskDelete(watchdogTaskHandle)
EndTasks ==
    /\ pcMain = "E1"
    /\ pcS' = "off"
    /\ pcMain' = "E2"
    /\ UNCHANGED <<buffer, validator, storage, bufferMutex, statsMutex,
                   initialized, wifiUp, connected, pcM, endFrame>>

\* lines 137-141: mqttClient->disconnect(), delete mqttClient
EndClient ==
    /\ pcMain = "E2"
    /\ connected' = FALSE
    /\ pcMain' = "E3"
    /\ UNCHANGED <<buffer, validator, storage, bufferMutex, statsMutex,
                   initialized, wifiUp, pcM, pcS, endFrame>>

\* lines 143-145: storage->flush(), storage->end()
EndStorageFlush ==
    /\ pcMain = "E3"
    /\ storage' = IF storage = nullptr THEN storage
                  ELSE storageEnd(flush(storage, now).st)
    /\ pcMain' = "E4"
    /\ UNCHANGED <<buffer, validator, bufferMutex, statsMutex, initialized,
                   wifiUp, connected, pcM, pcS, endFrame>>

\* lines 146-147: delete storage
EndStorageDelete ==
    /\ pcMain = "E4"
    /\ storage' = nullptr
    /\ pcMain' = "E5"
    /\ UNCHANGED <<buffer, validator, bufferMutex, statsMutex, initialized,
                   wifiUp, connected, pcM, pcS, endFrame>>

\* lines 150-153: delete buffer
EndBuffer ==
    /\ pcMain = "E5"
    /\ buffer' = nullptr
    /\ pcMain' = "E6"
    /\ UNCHANGED <<validator, storage, bufferMutex, statsMutex, initialized,
                   wifiUp, connected, pcM, pcS, endFrame>>

\* lines 155-158: delete validator
EndValidator ==
    /\ pcMain = "E6"
    /\ validator' = nullptr
    /\ pcMain' = "E7"
    /\ UNCHANGED <<buffer, storage, bufferMutex, statsMutex, initialized,
                   wifiUp, connected, pcM, pcS, endFrame>>

\* lines 160-171: vSemaphoreDelete twice, WiFi.disconnect(), initialized
EndFinish ==
    /\ pcMain = "E7"
    /\ bufferMutex' = "null"
    /\ statsMutex' = "null"
    /\ wifiUp' = FALSE
    /\ initialized' = FALSE
    /\ pcMain' = "ended"
    /\ UNCHANGED <<buffer, validator, storage, connected, pcM, pcS, endFrame>>

NextShutdown ==
    \/ Next
    \/ EndMqttTask
    \/ EndTasks
    \/ EndClient
    \/ EndStorageFlush
    \/ EndStorageDelete
    \/ EndBuffer
    \/ EndValidator
    \/ EndFinish

SpecShutdown == Init /\ [][NextShutdown]_vars

\* end() is running or has returned
InEnd == pcMain \in {"E1", "E2", "E3", "E4", "E5", "E6", "E7", "ended"}

WorkersOff == pcM = "off" /\ pcS = "off"

MutexesGone == bufferMutex = "null" /\ statsMutex = "null"

\* C20: during and after end(), nothing is released while a worker is
\* alive, the resources go in the order storage, validator, buffer,
\* mutexes, and once end() has returned the workers are off, everything is
\* released and the supervisor is uninitialized.
C20_CleanShutdown ==
    InEnd =>
        /\ (storage = nullptr \/ validator = nullptr \/ buffer = nullptr
              \/ bufferMutex = "null" \/ statsMutex = "null") => WorkersOff
        /\ validator = nullptr => storage = nullptr
        /\ buffer = nullptr => validator = nullptr
        /\ (bufferMutex = "null" \/ statsMutex = "null") => buffer = nullptr
        /\ pcMain = "ended" =>
               WorkersOff /\ MutexesGone /\ buffer = nullptr /\ ~initialized

\* what end() does keep: workers first, then storage (flushed and closed
\* before it is deleted), buffer, validator, mutexes
ShutdownAsBuilt ==
    InEnd =>
        /\ (storage = nullptr \/ validator = nullptr \/ buffer = nullptr
              \/ bufferMutex = "null" \/ statsMutex = "null") => WorkersOff
        /\ pcMain = "E4" => ~storage.open /\ ~storage.initialized
        /\ buffer = nullptr => storage = nullptr
        /\ validator = nullptr => buffer = nullptr
        /\ (bufferMutex = "null" \/ statsMutex = "null") => validator = nullptr
        /\ pcMain = "ended" =>
               WorkersOff /\ MutexesGone /\ validator = nullptr /\ ~initialized

\* once end() has returned no worker takes a step
NoStepAfterEnd == [][pcMain = "ended" => UNCHANGED <<pcM, pcS, cur, message>>]_vars


(***************************************************************************)
(* SchemaValidator::topicMatches, applied to every topic and pattern over  *)
(* a small alphabet.  A string is the sequence of its characters before    *)
(* the terminating NUL.                                                    *)
(***************************************************************************)
\* longest topic and pattern
MaxTopicLen == 3

TopicChars == {"a", "b", "/"}

PatternChars == {"a", "b", "/", "+", "#"}

RECURSIVE StringsOver(_, _)
\* the strings over alphabet cs of length at most n
StringsOver(cs, n) ==
    IF n = 0 THEN {<<>>}
    ELSE LET shorter == StringsOver(cs, n - 1)
         IN shorter \cup {Append(s, c) : s \in shorter, c \in cs}

RECURSIVE skipLevel(_)
\* lines 239-241: while (*t && *t != '/') t++
skipLevel(t) ==
    IF t # <<>> /\ Head(t) # "/" THEN skipLevel(Tail(t)) ELSE t

RECURSIVE topicMatches(_, _)
\* lines 232-255
topicMatches(t, p) ==
    IF t # <<>> /\ p # <<>>
    THEN IF Head(p) = "#" THEN TRUE
         ELSE IF Head(p) = "+" THEN topicMatches(skipLevel(t), Tail(p))
         ELSE IF Head(t) # Head(p) THEN FALSE
         ELSE topicMatches(Tail(t), Tail(p))
    ELSE t = <<>> /\ p = <<>>

InitTopic ==
    /\ buffer = nullptr
    /\ enq = <<>>
    /\ deq = <<>>
    /\ last \in {[op |-> "input", topic |-> t, pattern |-> p, ret |-> FALSE] :
                   t \in StringsOver(TopicChars, MaxTopicLen),
                   p \in StringsOver(PatternChars, MaxTopicLen)}
    /\ plain = TRUE
    /\ nops = 0
    /\ SupConstructed

\* validate line 121: topicMatches(topic, topicPattern)
TopicMatch ==
    /\ last.op = "input"
    /\ last' = [last EXCEPT !.op = "topicMatches",
                            !.ret = topicMatches(last.topic, last.pattern)]
    /\ UNCHANGED <<buffer, enq, deq, plain, nops, supVars>>

NextTopic == TopicMatch

SpecTopic == InitTopic /\ [][NextTopic]_vars

RECURSIVE ReferenceMatch(_, _)
\* the matching rule: a literal matches itself, '+' takes the input up to
\* the next '/', '#' takes all the remaining input (possibly none) and must
\* be the last token, and otherwise both must be exhausted together
ReferenceMatch(t, p) ==
    IF p = <<>> THEN t = <<>>
    ELSE IF Head(p) = "#" THEN Len(p) = 1
    ELSE IF Head(p) = "+" THEN ReferenceMatch(skipLevel(t), Tail(p))
    ELSE t # <<>> /\ Head(t) = Head(p) /\ ReferenceMatch(Tail(t), Tail(p))

\* C21: for every topic and pattern, topicMatches returns what the matching
\* rule gives.
C21_MatchesReference ==
    last.op = "topicMatches" =>
        last.ret = ReferenceMatch(last.topic, last.pattern)

\* the rule and topicMatches agree on every pattern without a wildcard
AgreesOnLiteralPatterns ==
    (last.op = "topicMatches"
       /\ \A i \in 1..Len(last.pattern) : last.pattern[i] \notin {"+", "#"})
    => last.ret = ReferenceMatch(last.topic, last.pattern)


\* topicMatches on topic "a/" and pattern "a/#"
HashOnEmptyRemainder ==
    (last.op = "topicMatches" /\ last.topic = <<"a", "/">>
       /\ last.pattern = <<"a", "/", "#">>) => last.ret


(***************************************************************************)
(* SchemaValidator::validate on a parsed document.  A document gives each  *)
(* field name a value or none; a value is an integer or a string.          *)
(***************************************************************************)
\* most fields of a schema
MaxFields == 2

FieldName(i) == i

NoValue == [is |-> "absent", n |-> 0]

Values == {[is |-> "int", n |-> 0], [is |-> "int", n |-> 1],
           [is |-> "str", n |-> 0]}

\* the documents over the first n field names
Documents(n) == [1..n -> Values \cup {NoValue}]

\* struct FieldSchema as parseSchema fills it for field number i: integer
\* fields carry the range of their validation object, string fields have none
FieldSchemas(i) ==
    {[name |-> FieldName(i), type |-> ty, required |-> r, autoFill |-> a,
      minValue |-> 1, maxValue |-> 1] :
        ty \in {"integer", "string"}, r \in BOOLEAN, a \in BOOLEAN}

RECURSIVE FieldTables(_)
\* the field tables of exactly n fields
FieldTables(n) ==
    IF n = 0 THEN {<<>>}
    ELSE {Append(t, f) : t \in FieldTables(n - 1), f \in FieldSchemas(n)}

\* doc.containsKey(fs.name)
containsKey(doc, name) == name \in DOMAIN doc /\ doc[name].is # "absent"

\* SchemaValidator::validateType
validateType(value, type) ==
    IF type = "string" THEN value.is = "str"
    ELSE IF type = "integer" THEN value.is = "int"
    ELSE TRUE

\* SchemaValidator::validateField (no pattern is set on the fields)
validateField(value, schema) ==
    IF ~validateType(value, schema.type) THEN "VALIDATION_ERROR_TYPE_MISMATCH"
    ELSE IF schema.type = "integer"
            /\ (value.n < schema.minValue \/ value.n > schema.maxValue)
         THEN "VALIDATION_ERROR_OUT_OF_RANGE"
    ELSE "VALIDATION_OK"

missingRejected_required(fs) == fs.required

\* line 148
missingRejected(fs) == fs.required /\ ~fs.autoFill

RECURSIVE validateFrom(_, _, _)
\* the loop of lines 144-163, from field number i on
validateFrom(v, doc, i) ==
    IF i > v.fieldCount THEN "VALIDATION_OK"
    ELSE LET fs == v.fields[i] IN
         IF ~containsKey(doc, fs.name)
         THEN IF missingRejected(fs) THEN "VALIDATION_ERROR_MISSING_FIELD"
              ELSE validateFrom(v, doc, i + 1)
         ELSE LET result == validateField(doc[fs.name], fs) IN
              IF result # "VALIDATION_OK" THEN result
              ELSE validateFrom(v, doc, i + 1)

\* SchemaValidator::validate(const char*, JsonDocument&)
validateDocument(v, doc) ==
    IF ~v.enabled \/ ~v.loaded THEN "VALIDATION_OK"
    ELSE validateFrom(v, doc, 1)

\* a validator holding a loaded schema of n fields
LoadedValidators(n) ==
    {[NewValidator EXCEPT !.loaded = TRUE, !.fields = t, !.fieldCount = n] :
        t \in FieldTables(n)}

InitValidate ==
    /\ buffer = nullptr
    /\ enq = <<>>
    /\ deq = <<>>
    /\ \E n \in 1..MaxFields :
         last \in {[op |-> "input", v |-> v, doc |-> d, ret |-> "VALIDATION_OK"] :
                     v \in LoadedValidators(n), d \in Documents(n)}
    /\ plain = TRUE
    /\ nops = 0
    /\ SupConstructed

\* handleMessage line 358 reaches validate(topic, doc) through line 135
ValidateDocument ==
    /\ last.op = "input"
    /\ last' = [last EXCEPT !.op = "validate",
                            !.ret = validateDocument(last.v, last.doc)]
    /\ UNCHANGED <<buffer, enq, deq, plain, nops, supVars>>

NextValidate == ValidateDocument

SpecValidate == InitValidate /\ [][NextValidate]_vars

\* the verdict on field number i of schema v taken alone: an absent field
\* is a failure only if it is required and not auto_fill
Verdict(v, doc, i) ==
    LET fs == v.fields[i] IN
    IF doc[fs.name] = NoValue
    THEN IF fs.required /\ ~fs.autoFill THEN "VALIDATION_ERROR_MISSING_FIELD"
         ELSE "VALIDATION_OK"
    ELSE validateField(doc[fs.name], fs)

\* C22: validate returns the verdict of the first field, in declaration
\* order, whose verdict is not Ok, and Ok if there is none; an absent field
\* fails only if it is required and not auto_fill, otherwise validation goes
\* on with the next field.
C22_AbsentFields ==
    last.op = "validate" =>
        LET v == last.v
            failing == {i \in 1..v.fieldCount :
                          Verdict(v, last.doc, i) # "VALIDATION_OK"}
        IN IF failing = {} THEN last.ret = "VALIDATION_OK"
           ELSE \E i \in failing :
                  /\ \A j \in failing : i <= j
                  /\ last.ret = Verdict(v, last.doc, i)

\* the first field is absent, required and auto_fill, and the second fails
C22_Witness ==
    /\ last.op = "validate"
    /\ last.v.fieldCount >= 2
    /\ last.doc[1] = NoValue
    /\ last.v.fields[1].required /\ last.v.fields[1].autoFill
    /\ last.doc[2] = NoValue
    /\ last.v.fields[2].required /\ ~last.v.fields[2].autoFill
    /\ last.ret = "VALIDATION_ERROR_MISSING_FIELD"


(***************************************************************************)
(* Stand-alone model of SchemaValidator: schema loads and validations in   *)
(* any order on one validator.                                             *)
(***************************************************************************)
SchemaNames == {<<"s">>, <<"t">>}

SchemaTopics == {<<"a">>, <<"b">>}

\* the text handed to loadSchemaFromJson: one deserializeJson rejects, or a
\* document with or without the keys name, topic_pattern and fields
SchemaBlobs ==
    [error : {TRUE}, hasName : {FALSE}, name : {<<>>}, hasTopic : {FALSE},
     topic : {<<>>}, hasFields : {FALSE}, fields : {<<>>}]
    \cup [error : {FALSE}, hasName : {TRUE}, name : SchemaNames,
          hasTopic : {FALSE}, topic : {<<>>}, hasFields : BOOLEAN,
          fields : FieldTables(0) \cup FieldTables(1)]
    \cup [error : {FALSE}, hasName : {FALSE}, name : {<<>>},
          hasTopic : {TRUE}, topic : SchemaTopics, hasFields : BOOLEAN,
          fields : FieldTables(0) \cup FieldTables(1)]

\* SchemaValidator::parseSchema
parseSchema(v, doc) ==
    LET named == IF doc.hasName THEN [v EXCEPT !.schemaName = doc.name] ELSE v
        topiced == IF doc.hasTopic
                   THEN [named EXCEPT !.topicPattern = doc.topic] ELSE named
        table == IF doc.hasFields THEN doc.fields ELSE <<>>
        counted == [topiced EXCEPT !.fieldCount = Len(table)]
    IN IF ~doc.hasFields THEN [ret |-> FALSE, v |-> topiced]
       ELSE IF counted.fieldCount = 0 THEN [ret |-> FALSE, v |-> counted]
       ELSE [ret |-> TRUE,
             v |-> [counted EXCEPT !.fields = table, !.loaded = TRUE]]

\* SchemaValidator::loadSchemaFromJson
loadSchemaFromJson(v, blob) ==
    IF blob.error THEN [ret |-> FALSE, v |-> v] ELSE parseSchema(v, blob)

\* the payloads handed to validate: text deserializeJson rejects, or a document
Payloads == [error : BOOLEAN, doc : Documents(1)]

\* SchemaValidator::validate(const char*, const char*)
validatePayload(v, topic, payload) ==
    IF ~v.enabled \/ ~v.loaded THEN "VALIDATION_OK"
    ELSE IF Len(v.topicPattern) > 0 /\ ~topicMatches(topic, v.topicPattern)
         THEN "VALIDATION_ERROR_PARSE_FAILED"
    ELSE IF payload.error THEN "VALIDATION_ERROR_PARSE_FAILED"
    ELSE validateDocument(v, payload.doc)

InitSchema ==
    /\ buffer = nullptr
    /\ enq = <<>>
    /\ deq = <<>>
    /\ last = NoCall
    /\ plain = TRUE
    /\ nops = 0
    /\ SupIdle
    /\ validator = NewValidator
    /\ storage = nullptr
    /\ now = 0

schemaFrame ==
    <<buffer, enq, deq, plain, status, stats, initialized, sdMounted, storage,
      bufferMutex, statsMutex, wifiUp, connected, now, lastReconnectAttempt,
      attempts, connects, pcMain, pcM, pcS, cur, message, wrote, delivered,
      written, evicted, rejected, curEvicted, skipped, lockLost, connOk>>

LoadSchema(blob) ==
    /\ nops < MaxCalls
    /\ nops' = nops + 1
    /\ LET r == loadSchemaFromJson(validator, blob) IN
         /\ validator' = r.v
         /\ last' = [op |-> "loadSchemaFromJson", arg |-> blob, ret |-> r.ret,
                     pre |-> validator]
    /\ UNCHANGED schemaFrame

ValidatePayload(topic, payload) ==
    /\ nops < MaxCalls
    /\ nops' = nops + 1
    /\ last' = [op |-> "validate", arg |-> payload,
                ret |-> validatePayload(validator, topic, payload),
                pre |-> validator]
    /\ UNCHANGED <<validator, schemaFrame>>

NextSchema ==
    \/ \E blob \in SchemaBlobs : LoadSchema(blob)
    \/ \E topic \in SchemaTopics, payload \in Payloads :
         ValidatePayload(topic, payload)

SpecSchema == InitSchema /\ [][NextSchema]_vars

\* validators a and b give every topic and payload the same result
SameVerdicts(a, b) ==
    \A topic \in SchemaTopics, payload \in Payloads :
        validatePayload(a, topic, payload) = validatePayload(b, topic, payload)

\* C23: a failed schema load leaves name, topic pattern, field table, field
\* count and loaded flag as they were, so the validator goes on giving every
\* message the result it gave before the call.
C23_FailedLoadKeepsState ==
    (last.op = "loadSchemaFromJson" /\ ~last.ret) =>
        /\ validator.schemaName = last.pre.schemaName
        /\ validator.topicPattern = last.pre.topicPattern
        /\ validator.fields = last.pre.fields
        /\ validator.fieldCount = last.pre.fieldCount
        /\ validator.loaded = last.pre.loaded
        /\ SameVerdicts(validator, last.pre)

\* only the verdicts: a failed load does not change what is rejected
FailedLoadKeepsVerdicts ==
    (last.op = "loadSchemaFromJson" /\ ~last.ret) =>
        SameVerdicts(validator, last.pre)

\* a load that fails in deserializeJson changes nothing, and a validator
\* that was never loaded stays unloaded after any failed load
FailedLoadAsBuilt ==
    /\ (last.op = "loadSchemaFromJson" /\ last.arg.error) =>
           validator = last.pre
    /\ (last.op = "loadSchemaFromJson" /\ ~last.ret) =>
           /\ validator.loaded = last.pre.loaded
           /\ validator.fields = last.pre.fields


CounterNames ==
    {"messagesReceived", "messagesStored", "messagesDropped",
     "validationErrors", "storageErrors", "mqttReconnects"}

\* C24: no step of the workers, the ingest callback or update() decreases
\* any of the six counters.
C24_CountersMonotonic ==
    [][\A c \in CounterNames : stats'[c] >= stats[c]]_vars

\* counters of the ingest path, the drain worker and the reconnect grew
C24_Witness ==
    /\ stats.messagesReceived >= 2
    /\ stats.storageErrors >= 1
    /\ stats.mqttReconnects >= 1


\* the execution contexts that take the mutexes
Contexts == {"mqtt", "storage", "main"}

\* C25: no context ever holds the buffer mutex and the stats mutex together.
C25_NeverBothMutexes ==
    \A ctx \in Contexts : ~(bufferMutex = ctx /\ statsMutex = ctx)

\* only the ingest callback nests them, and only buffer before stats
NestedOnlyOnEviction ==
    /\ ~(bufferMutex = "storage" /\ statsMutex = "storage")
    /\ ~(bufferMutex = "main" /\ statsMutex = "main")
    /\ (bufferMutex = "mqtt" /\ statsMutex = "mqtt") => pcM = "H9"


\* the next step of a context is a ring buffer operation: isFull and
\* removeOldest (line 373-375) or push (line 383) in the ingest callback,
\* isEmpty and pop (lines 304-305) in the drain worker, usagePercent (line
\* 438) in update()
BufferOpNext(ctx) ==
    \/ ctx = "mqtt" /\ pcM \in {"H7", "H10"}
    \/ ctx = "storage" /\ pcS = "S2"
    \/ ctx = "main" /\ pcMain = "U2"

\* C26: a context executes a ring buffer operation, read-only ones
\* included, only while it holds the buffer mutex.
C26_BufferOpsUnderMutex ==
    \A ctx \in Contexts : BufferOpNext(ctx) => bufferMutex = ctx

\* the two workers do hold the buffer mutex around their buffer operations
WorkersBufferOpsUnderMutex ==
    \A ctx \in {"mqtt", "storage"} : BufferOpNext(ctx) => bufferMutex = ctx

\* the drain worker is inside storage->writeMessage (line 310)
InStorageCall == pcS = "S3"

\* C27: while the drain worker is inside a storage call it does not hold
\* the buffer mutex.
C27_NoStorageUnderBufferMutex == InStorageCall => bufferMutex # "storage"

\* the ingest callback holds the buffer mutex, about to push, while the
\* drain worker is inside its storage call
C27_Witness ==
    /\ InStorageCall
    /\ storage # nullptr /\ sdMounted
    /\ bufferMutex = "mqtt"
    /\ pcM = "H10"


\* the last call was a writeMessage on an open file that had reached
\* maxFileSize
WriteOnFullFile ==
    /\ last.op = "writeMessage"
    /\ last.pre.initialized /\ last.pre.open
    /\ RotationDue

\* the rotation of the last call did not create a file
RotationFailed == storage.filesCreated = last.pre.filesCreated

\* C28: a writeMessage on a file that has reached maxFileSize rotates
\* first: if it succeeds, a file was created and the line is the first one
\* counted in it; if the rotation fails, the write fails and nothing is
\* appended to any file.
C28_RotateBeforeWrite ==
    WriteOnFullFile =>
        /\ last.ret =>
              /\ storage.filesCreated = last.pre.filesCreated + 1
              /\ storage.currentFileSize = LineLen(last.arg)
        /\ RotationFailed =>
              /\ ~last.ret
              /\ NothingAppended
              /\ storage.writesFailed = last.pre.writesFailed + 1

C28_Witness ==
    /\ WriteOnFullFile
    /\ RotationFailed
    /\ ~last.ret
    /\ ~storage.open


\* C29: while the StorageManager is running (begun and not ended) a file is
\* open, and it is the current file, also after a rotation that failed to
\* create the new file.
C29_OneFileOpenWhileRunning ==
    storage.initialized =>
        /\ storage.open
        /\ storage.currentFileName \in AllFiles(storage)

\* once the file is lost no later write succeeds
NoWriteWithoutFile ==
    (last.op = "writeMessage" /\ ~last.pre.open) =>
        ~last.ret /\ storage = last.pre


\* C30: in every reachable state of the ring buffer
\* head = (tail + count) mod capacity.
C30_HeadTailCount ==
    buffer.head = (buffer.tail + buffer.count) % buffer.maxCapacity

\* head has wrapped around the end of the array and a removeOldest has
\* moved tail
C30_Witness ==
    /\ last.op = "removeOldest"
    /\ buffer.tail > 0
    /\ buffer.head < buffer.tail
    /\ buffer.count > 0


\* the broker worker is inside handleMessage
InCallback ==
    pcM \in {"H1", "H2", "H4", "H5", "H6", "H7", "H8", "H9", "H10"}

\* the drain worker is between taking the buffer mutex and its last count
InDrain == pcS \in {"S2", "S3", "S4", "S5"}

Quiescent == buffer # nullptr /\ ~InCallback /\ ~InDrain

\* C31: in every quiescent state messagesReceived = validationErrors +
\* messagesDropped + messagesStored + storageErrors + the buffer's size.
C31_Conservation ==
    Quiescent =>
        stats.messagesReceived =
            stats.validationErrors + stats.messagesDropped
              + stats.messagesStored + stats.storageErrors + buffer.count

\* the messages themselves are conserved: each delivered one was rejected,
\* given up on a bufferMutex timeout, evicted, popped, or is in the buffer
MessagesConserved ==
    Quiescent =>
        delivered = Cardinality(rejected) + Cardinality(lockLost)
                      + Len(evicted) + Len(deq) + buffer.count

\* the counters add up when no mutex acquisition has timed out and the
\* storage device is mounted
ConservationWithoutLoss ==
    (Quiescent /\ skipped = NoSkips /\ lockLost = {} /\ sdMounted) =>
        stats.messagesReceived =
            stats.validationErrors + stats.messagesDropped
              + stats.messagesStored + stats.storageErrors + buffer.count

\* with the device unmounted and no timeout at all the counters do not add up
ConservationWithoutTimeouts ==
    (Quiescent /\ skipped = NoSkips /\ lockLost = {}) =>
        stats.messagesReceived =
            stats.validationErrors + stats.messagesDropped
              + stats.messagesStored + stats.storageErrors + buffer.count


(***************************************************************************)
(* The whole program under fair scheduling: the FreeRTOS scheduler runs    *)
(* each task that is ready, and xSemaphoreTake returns after its timeout   *)
(* at the latest, so a context that has a step to take takes it.           *)
(***************************************************************************)
BrokerSteps ==
    \/ MqttTop
    \/ \E ok \in BOOLEAN : MqttConnect(ok)
    \/ MqttReconnectTake
    \/ MqttReconnectCount
    \/ HandleReceivedTake
    \/ HandleReceivedCount
    \/ HandleInvalidTake
    \/ HandleInvalidCount
    \/ HandleBufferTake
    \/ HandleFullCheck
    \/ HandleDroppedTake
    \/ HandleDroppedCount
    \/ HandlePush

MainSteps ==
    \/ BeginStart
    \/ \E wifiOk \in BOOLEAN, sdOk \in BOOLEAN, schemaOk \in BOOLEAN,
          io \in IoOutcomes : BeginSetup(wifiOk, sdOk, schemaOk, io)
    \/ BeginTasks
    \/ BeginFinish
    \/ UpdateTake
    \/ UpdateStats

NextFair ==
    \/ BrokerSteps
    \/ DrainWorker
    \/ MainSteps
    \/ \E kind \in InKinds : MqttDeliver(kind)
    \/ Tick
    \/ LinkChange
    \/ BrokerDrop

SpecFair ==
    /\ Init
    /\ [][NextFair]_vars
    /\ WF_vars(BrokerSteps)
    /\ WF_vars(DrainWorker)
    /\ WF_vars(MainSteps)

\* where a context sleeps, returns or calls storage: vTaskDelay and the
\* client loop in mqttTask, vTaskDelay and writeMessage in storageTask, the
\* return of update() in the main context
AtRest(ctx) ==
    \/ ctx = "mqtt" /\ pcM \in {"off", "top", "conn"}
    \/ ctx = "storage" /\ pcS \in {"off", "S1", "S3"}
    \/ ctx = "main" /\ pcMain \in {"start", "wifi", "new", "fin", "loop"}

Holds(ctx) == bufferMutex = ctx \/ statsMutex = ctx

\* C32: a context holds no mutex where it sleeps, returns or calls storage,
\* and every mutex a context has taken is given back by it, so that no
\* mutex stays held forever.
C32_NoLockLeak ==
    /\ [](\A ctx \in Contexts : AtRest(ctx) => ~Holds(ctx))
    /\ \A ctx \in Contexts :
         /\ (bufferMutex = ctx) ~> (bufferMutex = "none")
         /\ (statsMutex = ctx) ~> (statsMutex = "none")

\* the ingest callback holds the buffer mutex and waits for the stats mutex,
\* which update() holds, while the drain worker waits for the buffer mutex
C32_Witness ==
    /\ bufferMutex = "mqtt"
    /\ pcM = "H8"
    /\ statsMutex = "main"
    /\ pcS = "S1"

\* the drain worker takes a record out of the ring buffer: line 305
Popped == Len(deq') = Len(deq) + 1

\* C33: whenever the buffer holds records, it becomes empty unless another
\* message arrives first, whatever the storage writes do; records leave
\* through the drain worker one at a time, only at the pop of an iteration
\* that started at the top of the loop.
C33_DrainLiveness ==
    /\ \A n \in 0..MaxMsgs :
         (buffer # nullptr /\ ~isEmpty(buffer) /\ delivered = n)
             ~> ((buffer # nullptr /\ isEmpty(buffer)) \/ delivered > n)
    /\ [][/\ Len(deq') \in {Len(deq), Len(deq) + 1}
          /\ Popped => /\ pcS = "S2" /\ pcS' = "S3"
                       /\ buffer'.count = buffer.count - 1
          /\ pcS' = "S2" => pcS \in {"S1", "S2"}]_vars

\* all messages have arrived and been handled, the buffer was full and is
\* empty again, and a record the drain worker took out was never written
C33_Witness ==
    /\ delivered = MaxMsgs
    /\ ~InCallback
    /\ buffer # nullptr
    /\ isEmpty(buffer)
    /\ pcS = "S1"
    /\ Len(deq) >= BufCap
    /\ Len(written) < Len(deq)

=============================================================================
